---- MODULE Spec2Model ----
(***************************************************************************)
(* Two independent Flask services of the repository:                       *)
(*   - the trivia API   (projects/02_trivia_api/.../flaskr/__init__.py)    *)
(*   - the coffee-shop API (projects/03_coffee_shop_full_stack/.../api.py) *)
(* Each request handler is one action; the relational store of each        *)
(* service is a sequence of rows kept in id order.  The last request and   *)
(* its response are kept in req/resp, the store as it was before the       *)
(* request in preQuestions/preDrinks.                                      *)
(***************************************************************************)
EXTENDS Integers, Sequences, FiniteSets, TLC

VARIABLES questions,       \* trivia: the rows of the questions table
          nextQuestionId,  \* trivia: the id the next inserted question gets
          drinks,          \* coffee shop: the rows of the drinks table
          nextDrinkId,     \* coffee shop: the id the next inserted drink gets
          preQuestions,    \* the questions table before the last request
          preDrinks,       \* the drinks table before the last request
          req,             \* the last request
          resp,            \* the response to it
          writes,          \* number of requests so far that changed a table
          session          \* trivia: a quiz client's previous_questions

vars == <<questions, nextQuestionId, drinks, nextDrinkId,
          preQuestions, preDrinks, req, resp, writes, session>>

\* Bounds of the model.
MaxSeed == 11        \* largest number of questions in the initial table
MaxPage == 3         \* largest page number requested
MaxPrevId == 2       \* previous_questions is drawn from the ids 1..MaxPrevId
MaxWrites == 2       \* trivia: table-changing requests per run
MaxDrinkWrites == 2  \* coffee shop: table-changing requests per run
NumCategories == 2   \* rows of the categories table (ids 1..NumCategories)
MaxCalls == MaxSeed + 2  \* POST /quizzes calls of one quiz session

(***************************************************************************)
(* Python values.  Every value is a record of one shape so that values of  *)
(* different Python types can be compared: k is the type, s the characters *)
(* of a str (or of a dict key), n the int, items the elements of a list    *)
(* or the key/value pairs of a dict.  A str is a sequence of characters.   *)
(***************************************************************************)
PyNone == [k |-> "none", s |-> <<>>, n |-> 0, items |-> <<>>]
PyStr(cs) == [k |-> "str", s |-> cs, n |-> 0, items |-> <<>>]
PyInt(i) == [k |-> "int", s |-> <<>>, n |-> i, items |-> <<>>]
PyList(xs) == [k |-> "list", s |-> <<>>, n |-> 0, items |-> xs]
PyPair(key, v) == [k |-> "pair", s |-> key, n |-> 0, items |-> <<v>>]
PyDict(pairs) == [k |-> "dict", s |-> <<>>, n |-> 0, items |-> pairs]

\* Python truthiness of a value (None, "", 0, [] and {} are falsy).
Truthy(v) ==
    CASE v.k = "none" -> FALSE
      [] v.k = "str" -> v.s # <<>>
      [] v.k = "int" -> v.n # 0
      [] OTHER -> v.items # <<>>

\* d[key] of a dict value: the sequence of the values bound to key (empty
\* when the key is missing).
DictGet(d, key) ==
    LET hits == SelectSeq(d.items, LAMBDA p : p.s = key)
    IN  IF hits = <<>> THEN <<>> ELSE <<hits[1].items[1]>>

\* The characters of a short ASCII word.
Chars(w) ==
    CASE w = "name" -> <<"n", "a", "m", "e">>
      [] w = "color" -> <<"c", "o", "l", "o", "r">>
      [] w = "parts" -> <<"p", "a", "r", "t", "s">>
      [] w = "null" -> <<"n", "u", "l", "l">>

(***************************************************************************)
(* json.dumps and json.loads of the Python standard library, on the values *)
(* the services exchange: None, str, non-negative int, list, dict.  A JSON *)
(* text is a sequence of characters, with json.dumps' default separators   *)
(* ", " and ": ".                                                          *)
(***************************************************************************)
DigitChars == <<"0", "1", "2", "3", "4", "5", "6", "7", "8", "9">>

DigitValue(c) == CHOOSE d \in 0..9 : DigitChars[d + 1] = c

IsDigit(c) == \E d \in 1..10 : DigitChars[d] = c

RECURSIVE IntChars(_)
IntChars(i) ==
    IF i < 10 THEN <<DigitChars[i + 1]>>
    ELSE IntChars(i \div 10) \o <<DigitChars[(i % 10) + 1]>>

\* A str as the body of a JSON string literal: quote and backslash escaped.
\* (Halving keeps the recursion shallow on long texts.)
RECURSIVE Escape(_)
Escape(cs) ==
    IF cs = <<>> THEN <<>>
    ELSE IF Len(cs) = 1
         THEN (IF cs[1] \in {"\"", "\\"} THEN <<"\\", cs[1]>> ELSE cs)
    ELSE LET half == Len(cs) \div 2
         IN  Escape(SubSeq(cs, 1, half)) \o Escape(SubSeq(cs, half + 1, Len(cs)))

RECURSIVE json_dumps(_), DumpItems(_)
json_dumps(v) ==
    CASE v.k = "none" -> Chars("null")
      [] v.k = "str" -> <<"\"">> \o Escape(v.s) \o <<"\"">>
      [] v.k = "int" -> IntChars(v.n)
      [] v.k = "list" -> <<"[">> \o DumpItems(v.items) \o <<"]">>
      [] v.k = "dict" -> <<"{">> \o DumpItems(v.items) \o <<"}">>
      [] v.k = "pair" -> <<"\"">> \o Escape(v.s) \o <<"\"", ":", " ">>
                         \o json_dumps(v.items[1])

DumpItems(xs) ==
    IF xs = <<>> THEN <<>>
    ELSE json_dumps(Head(xs))
         \o (IF Len(xs) > 1 THEN <<",", " ">> ELSE <<>>)
         \o DumpItems(Tail(xs))

\* The result of a parse step: ok, the value read, the index after it.
ParseFail == [ok |-> FALSE, v |-> PyNone, i |-> 0]
ParseOk(v, i) == [ok |-> TRUE, v |-> v, i |-> i]

RECURSIVE SkipWs(_, _)
SkipWs(t, i) == IF i <= Len(t) /\ t[i] = " " THEN SkipWs(t, i + 1) ELSE i

\* The body of a string literal that starts at index start (after its
\* opening quote).  The character at j is escaped when an odd number of
\* backslashes runs up to it; the literal ends at the first quote that is not
\* escaped, and its value drops the backslashes that escape.
BackslashRun(t, start, j) ==
    CHOOSE r \in 0..(j - start) :
        /\ \A q \in 1..r : t[j - q] = "\\"
        /\ (r = j - start \/ t[j - r - 1] # "\\")

IsEscaped(t, start, j) == BackslashRun(t, start, j) % 2 = 1

ScanStr(t, start) ==
    LET closing == {j \in start..Len(t) : t[j] = "\"" /\ ~IsEscaped(t, start, j)}
        close == CHOOSE j \in closing : \A o \in closing : j <= o
        kept(j) == t[j] # "\\" \/ IsEscaped(t, start, j)
        body == SelectSeq([i \in 1..(close - start) |-> start + i - 1], kept)
    IN  IF closing = {} THEN ParseFail
        ELSE ParseOk(PyStr([i \in 1..Len(body) |-> t[body[i]]]), close + 1)

RECURSIVE ScanNum(_, _, _)
ScanNum(t, j, acc) ==
    IF j <= Len(t) /\ IsDigit(t[j])
    THEN ScanNum(t, j + 1, acc * 10 + DigitValue(t[j]))
    ELSE ParseOk(PyInt(acc), j)

RECURSIVE ParseValue(_, _), ParseElems(_, _, _), ParseMembers(_, _, _)
ParseValue(t, i0) ==
    LET i == SkipWs(t, i0) IN
    IF i > Len(t) THEN ParseFail
    ELSE CASE t[i] = "n" ->
                IF i + 3 <= Len(t) /\ SubSeq(t, i, i + 3) = Chars("null")
                THEN ParseOk(PyNone, i + 4) ELSE ParseFail
           [] t[i] = "\"" -> ScanStr(t, i + 1)
           [] IsDigit(t[i]) -> ScanNum(t, i, 0)
           [] t[i] = "[" ->
                LET j == SkipWs(t, i + 1) IN
                IF j <= Len(t) /\ t[j] = "]" THEN ParseOk(PyList(<<>>), j + 1)
                ELSE ParseElems(t, j, <<>>)
           [] t[i] = "{" ->
                LET j == SkipWs(t, i + 1) IN
                IF j <= Len(t) /\ t[j] = "}" THEN ParseOk(PyDict(<<>>), j + 1)
                ELSE ParseMembers(t, j, <<>>)
           [] OTHER -> ParseFail

ParseElems(t, i, acc) ==
    LET r == ParseValue(t, i)
        j == SkipWs(t, r.i)
    IN  IF ~r.ok \/ j > Len(t) THEN ParseFail
        ELSE IF t[j] = "," THEN ParseElems(t, j + 1, Append(acc, r.v))
        ELSE IF t[j] = "]" THEN ParseOk(PyList(Append(acc, r.v)), j + 1)
        ELSE ParseFail

ParseMembers(t, i, acc) ==
    LET key == ParseValue(t, i)
        c == SkipWs(t, key.i)
        val == ParseValue(t, c + 1)
        j == SkipWs(t, val.i)
    IN  IF ~key.ok \/ key.v.k # "str" \/ c > Len(t) THEN ParseFail
        ELSE IF t[c] # ":" \/ ~val.ok \/ j > Len(t) THEN ParseFail
        ELSE IF t[j] = ","
             THEN ParseMembers(t, j + 1, Append(acc, PyPair(key.v.s, val.v)))
        ELSE IF t[j] = "}"
             THEN ParseOk(PyDict(Append(acc, PyPair(key.v.s, val.v))), j + 1)
        ELSE ParseFail

\* json.loads: ok is FALSE where Python raises JSONDecodeError.
json_loads(t) ==
    LET r == ParseValue(t, 1)
    IN  IF r.ok /\ SkipWs(t, r.i) > Len(t) THEN [ok |-> TRUE, v |-> r.v]
        ELSE [ok |-> FALSE, v |-> PyNone]

(***************************************************************************)
(* Requests and responses.  One record shape for every endpoint; keys is   *)
(* the set of keys of the JSON body of the response.                       *)
(***************************************************************************)
NoReq == [op |-> "none", page |-> 1, id |-> 0,
          question |-> PyNone, answer |-> PyNone, category |-> PyNone,
          difficulty |-> PyNone, searchTerm |-> PyNone,
          previous_questions |-> {}, quiz_category |-> PyNone,
          auth |-> [kind |-> "none", permissions |-> {}],
          has_title |-> FALSE, title |-> PyNone,
          has_recipe |-> FALSE, recipe |-> PyNone]

NoResp == [status |-> 0, success |-> FALSE, keys |-> {},
           questions |-> <<>>, total_questions |-> 0, created |-> 0,
           deleted |-> 0, current_category |-> 0, question |-> <<>>,
           drinks |-> <<>>, delete |-> 0, gate |-> "none"]

\* abort(code): the JSON error envelope of the errorhandlers.
ErrorResp(code) ==
    [NoResp EXCEPT !.status = code, !.keys = {"success", "error", "message"}]

\* jsonify({'success': ..., ...}) with status 200.
OkResp(success, keys) ==
    [NoResp EXCEPT !.status = 200, !.success = success, !.keys = keys]

(***************************************************************************)
(* Trivia service                                                          *)
(***************************************************************************)
QUESTIONS_PER_PAGE == 10

Min(a, b) == IF a < b THEN a ELSE b
Max(a, b) == IF a > b THEN a ELSE b

\* Python's xs[start:end], negative indices counted from the end.
PySlice(xs, start, end) ==
    LET norm(i) == IF i < 0 THEN Max(i + Len(xs), 0) ELSE Min(i, Len(xs))
        a == norm(start)
        b == norm(end)
    IN  IF a >= b THEN <<>> ELSE SubSeq(xs, a + 1, b)

\* Question.format(): the row as the dict of the JSON responses.
Format(q) ==
    [id |-> q.id, question |-> q.question, answer |-> q.answer,
     category |-> q.category, difficulty |-> q.difficulty]

\* query.order_by(Question.id).all(): the rows as a list in id order.
RECURSIVE OrderById(_)
OrderById(rows) ==
    IF rows = {} THEN <<>>
    ELSE LET first == CHOOSE r \in rows : \A o \in rows : r.id <= o.id
         IN  <<first>> \o OrderById(rows \ {first})

paginate_questions_off_by_one(page, selection) ==
    LET start == page * QUESTIONS_PER_PAGE
        end == start + QUESTIONS_PER_PAGE
    IN  PySlice([i \in 1..Len(selection) |-> Format(selection[i])], start, end)

paginate_questions(page, selection) ==
    LET start == (page - 1) * QUESTIONS_PER_PAGE
        end == start + QUESTIONS_PER_PAGE
        formatted == [i \in 1..Len(selection) |-> Format(selection[i])]
    IN  PySlice(formatted, start, end)

\* GET /questions?page=N
get_questions(rows, page) ==
    LET selection == OrderById(rows)
        current_questions == paginate_questions(page, selection)
    IN  IF Len(current_questions) = 0 THEN ErrorResp(404)
        ELSE [OkResp(TRUE, {"success", "questions", "total_questions",
                            "categories", "current_category"})
                EXCEPT !.questions = current_questions,
                       !.total_questions = Len(selection)]

\* Question.delete(): the row leaves the table.
QuestionDelete(rows, q) == rows \ {q}

\* Question.insert(): the row enters the table under the next free id.
QuestionInsert(rows, id, question, answer, category, difficulty) ==
    rows \cup {[id |-> id, question |-> question, answer |-> answer,
                category |-> category, difficulty |-> difficulty]}

\* DELETE /questions/<question_id>.  abort(404) is raised inside the try, and
\* the handler's except Exception turns it into abort(422).
delete_specific_question_keeps_row(rows, page, question_id) ==
    LET found == {q \in rows : q.id = question_id}
        selection == OrderById(rows)
    IN  IF found = {} THEN [resp |-> ErrorResp(422), rows |-> rows]
        ELSE [resp |-> [OkResp(TRUE, {"success", "deleted", "questions",
                                      "total_questions"})
                          EXCEPT !.deleted = question_id,
                                 !.questions = paginate_questions(page, selection),
                                 !.total_questions = Len(selection)],
              rows |-> rows]

delete_specific_question(rows, page, question_id) ==
    LET found == {q \in rows : q.id = question_id}
    IN  IF found = {} THEN [resp |-> ErrorResp(422), rows |-> rows]
        ELSE LET question == CHOOSE q \in found : TRUE
                 after == QuestionDelete(rows, question)
                 selection == OrderById(after)
             IN  [resp |-> [OkResp(TRUE, {"success", "deleted", "questions",
                                          "total_questions"})
                              EXCEPT !.deleted = question_id,
                                     !.questions = paginate_questions(page, selection),
                                     !.total_questions = Len(selection)],
                  rows |-> after]

\* Lower-casing of the letters the model's texts use.
Lower(c) ==
    CASE c = "A" -> "a"
      [] c = "B" -> "b"
      [] c = "C" -> "c"
      [] OTHER -> c

\* SQL's text ILIKE pattern: % matches any run of characters, _ any one
\* character, every other character itself, letters without regard to case.
RECURSIVE ILike(_, _)
ILike(text, pattern) ==
    IF pattern = <<>> THEN text = <<>>
    ELSE IF Head(pattern) = "%"
         THEN ILike(text, Tail(pattern))
              \/ (text # <<>> /\ ILike(Tail(text), pattern))
    ELSE IF text = <<>> THEN FALSE
    ELSE IF Head(pattern) = "_" THEN ILike(Tail(text), Tail(pattern))
    ELSE Lower(Head(text)) = Lower(Head(pattern))
         /\ ILike(Tail(text), Tail(pattern))

\* Question.question.ilike('%{}%'.format(search)); a NULL question matches
\* nothing.
QuestionILike(q, search) ==
    q.question.k = "str" /\ ILike(q.question.s, <<"%">> \o search \o <<"%">>)

\* POST /questions: a search when the body carries a truthy searchTerm, else
\* the creation of a question from the body's fields (None where missing).
create_new_question_no_insert(rows, nextId, page, body) ==
    [resp |-> [OkResp(TRUE, {"success", "created", "questions", "total_questions"})
                 EXCEPT !.created = nextId,
                        !.questions = paginate_questions(page, OrderById(rows)),
                        !.total_questions = Cardinality(rows)],
     rows |-> rows, nextId |-> nextId]

create_new_question(rows, nextId, page, body) ==
    LET search == body.searchTerm IN
    IF Truthy(search)
    THEN LET selection == OrderById({q \in rows : QuestionILike(q, search.s)})
         IN  [resp |-> [OkResp(TRUE, {"success", "questions", "total_questions",
                                      "current_category"})
                          EXCEPT !.questions = paginate_questions(page, selection),
                                 !.total_questions = Len(selection)],
              rows |-> rows, nextId |-> nextId]
    ELSE LET after == QuestionInsert(rows, nextId, body.question, body.answer,
                                     body.category, body.difficulty)
             selection == OrderById(after)
         IN  [resp |-> [OkResp(TRUE, {"success", "created", "questions",
                                      "total_questions"})
                          EXCEPT !.created = nextId,
                                 !.questions = paginate_questions(page, selection),
                                 !.total_questions = Len(selection)],
              rows |-> after, nextId |-> nextId + 1]

\* GET /categories/<category_id>/questions
get_questions_for_category(rows, page, category_id) ==
    LET selection == OrderById({q \in rows : q.category = PyInt(category_id)})
        current_questions == paginate_questions(page, selection)
    IN  [OkResp(TRUE, {"success", "questions", "total_questions",
                       "current_category"})
           EXCEPT !.questions = current_questions,
                  !.total_questions = Len(selection),
                  !.current_category = category_id]

\* POST /quizzes: the set of responses random.choice can produce.
\*  - quiz_category missing (None): .get('id') raises outside the try: 500;
\*  - quiz_category {} (falsy): selection is never bound, the NameError is
\*    caught and becomes abort(404);
\*  - quiz_category without an id: category_id is None, and the filter
\*    Question.category == None selects the rows whose category is NULL;
\*  - an empty selection: abort(422), caught and turned into abort(404).
play_quiz_ignores_previous(rows, previous_questions, quiz_category) ==
    IF quiz_category.k # "dict" THEN {[NoResp EXCEPT !.status = 500]}
    ELSE IF ~Truthy(quiz_category) THEN {ErrorResp(404)}
    ELSE
      LET got == DictGet(quiz_category, <<"i", "d">>)
          category_id == IF got = <<>> THEN PyNone ELSE got[1]
          selection == IF category_id = PyInt(0) THEN rows
                       ELSE {q \in rows : q.category = category_id}
      IN  IF selection = {} THEN {ErrorResp(404)}
          ELSE {[OkResp(TRUE, {"success", "question"})
                   EXCEPT !.question = <<Format(q)>>] : q \in selection}

play_quiz_no_empty_check(rows, previous_questions, quiz_category) ==
    IF quiz_category.k # "dict" THEN {[NoResp EXCEPT !.status = 500]}
    ELSE IF ~Truthy(quiz_category) THEN {ErrorResp(404)}
    ELSE
      LET got == DictGet(quiz_category, <<"i", "d">>)
          category_id == IF got = <<>> THEN PyNone ELSE got[1]
          selection == IF category_id = PyInt(0) THEN rows
                       ELSE {q \in rows : q.category = category_id}
          quiz_questions == {Format(q) : q \in {x \in selection :
                                                x.id \notin previous_questions}}
      IN  IF quiz_questions = {}
          THEN {[OkResp(FALSE, {"success", "question"})
                   EXCEPT !.question = <<>>]}
          ELSE {[OkResp(TRUE, {"success", "question"})
                   EXCEPT !.question = <<f>>] : f \in quiz_questions}

play_quiz(rows, previous_questions, quiz_category) ==
    IF quiz_category.k # "dict" THEN {[NoResp EXCEPT !.status = 500]}
    ELSE IF ~Truthy(quiz_category) THEN {ErrorResp(404)}
    ELSE
      LET got == DictGet(quiz_category, <<"i", "d">>)
          category_id == IF got = <<>> THEN PyNone ELSE got[1]
          selection == IF category_id = PyInt(0) THEN rows
                       ELSE {q \in rows : q.category = category_id}
          quiz_questions == {Format(q) : q \in {x \in selection :
                                                x.id \notin previous_questions}}
      IN  IF selection = {} THEN {ErrorResp(404)}
          ELSE IF quiz_questions = {}
               THEN {[OkResp(FALSE, {"success", "question"})
                        EXCEPT !.question = <<>>]}
          ELSE {[OkResp(TRUE, {"success", "question"})
                   EXCEPT !.question = <<f>>] : f \in quiz_questions}

(***************************************************************************)
(* Trivia service: the requests                                            *)
(***************************************************************************)
SeedTexts == << <<"A", "b">>, <<"b", "c">>, <<"c", "_", "a">> >>

\* The i-th question of the initial table.
SeedQuestion(i) ==
    [id |-> i, question |-> PyStr(SeedTexts[(i % 3) + 1]),
     answer |-> PyStr(<<"x">>), category |-> PyInt((i % NumCategories) + 1),
     difficulty |-> PyInt(1)]

Pages == -1..MaxPage

SearchTerms == {<<>>, <<"a">>, <<"B", "C">>, <<"_">>, <<"z">>}

\* Bodies of POST /questions: searches, creations (with all four fields, or
\* with none), and a body that carries both the fields and a searchTerm.
NewQuestion ==
    [question |-> PyStr(<<"Q", "a">>), answer |-> PyStr(<<"y">>),
     category |-> PyInt(1), difficulty |-> PyInt(2), searchTerm |-> PyNone]

PostQuestionBodies ==
    {[question |-> PyNone, answer |-> PyNone, category |-> PyNone,
      difficulty |-> PyNone, searchTerm |-> PyStr(t)] : t \in SearchTerms}
    \cup {NewQuestion,
          [NewQuestion EXCEPT !.searchTerm = PyStr(<<"a">>)],
          [NewQuestion EXCEPT !.question = PyNone, !.answer = PyNone,
                              !.category = PyNone, !.difficulty = PyNone]}

\* Bodies of POST /quizzes: no quiz_category, an empty one, one without an
\* id, and the ids 0..NumCategories+1 (the last one a category without rows).
QuizCategories ==
    {PyNone, PyDict(<<>>),
     PyDict(<<PyPair(<<"t", "y", "p", "e">>, PyStr(<<"x">>))>>)}
    \cup {PyDict(<<PyPair(<<"i", "d">>, PyInt(c))>>) : c \in 0..(NumCategories + 1)}

\* A quiz client (the frontend's quiz view): the category it plays, the ids
\* of the questions it was served, which it sends as previous_questions, and
\* the number of POST /quizzes calls it has made.  No client plays at first.
NoSession == [active |-> FALSE, category |-> 0, previous |-> {}, calls |-> 0]

\* Sizes of the initial table: small ones, a full page, and MaxSeed.
SeedCounts == (0..3) \cup {QUESTIONS_PER_PAGE, MaxSeed}

InitTrivia ==
    /\ \E n \in SeedCounts : questions = {SeedQuestion(i) : i \in 1..n}
    /\ nextQuestionId = Cardinality(questions) + 1
    /\ drinks = {}
    /\ nextDrinkId = 1
    /\ preQuestions = questions
    /\ preDrinks = drinks
    /\ req = NoReq
    /\ resp = NoResp
    /\ writes = 0
    /\ session = NoSession

\* The service handles one request at a time: a request is taken when the
\* response to the one before has been sent.
Idle == req.op = "none"

\* What every trivia request does besides answering.
TriviaFrame ==
    /\ preQuestions' = questions
    /\ preDrinks' = drinks
    /\ UNCHANGED <<drinks, nextDrinkId, session>>

GetQuestions ==
    /\ Idle
    /\ \E page \in Pages :
        /\ req' = [NoReq EXCEPT !.op = "get_questions", !.page = page]
        /\ resp' = get_questions(questions, page)
        /\ TriviaFrame
        /\ UNCHANGED <<questions, nextQuestionId, writes>>

DeleteQuestion ==
    /\ Idle
    /\ \E page \in {1}, id \in 1..nextQuestionId :
        LET r == delete_specific_question(questions, page, id) IN
        /\ r.rows = questions \/ writes < MaxWrites
        /\ req' = [NoReq EXCEPT !.op = "delete_specific_question",
                                !.page = page, !.id = id]
        /\ resp' = r.resp
        /\ questions' = r.rows
        /\ writes' = IF r.rows = questions THEN writes ELSE writes + 1
        /\ TriviaFrame
        /\ UNCHANGED nextQuestionId

PostQuestions ==
    /\ Idle
    /\ \E page \in {1, 2}, body \in PostQuestionBodies :
        LET r == create_new_question(questions, nextQuestionId, page, body) IN
        /\ r.rows = questions \/ writes < MaxWrites
        /\ req' = [NoReq EXCEPT !.op = "create_new_question", !.page = page,
                                !.question = body.question,
                                !.answer = body.answer,
                                !.category = body.category,
                                !.difficulty = body.difficulty,
                                !.searchTerm = body.searchTerm]
        /\ resp' = r.resp
        /\ questions' = r.rows
        /\ nextQuestionId' = r.nextId
        /\ writes' = IF r.rows = questions THEN writes ELSE writes + 1
        /\ TriviaFrame

GetQuestionsForCategory ==
    /\ Idle
    /\ \E page \in {1, 2}, category_id \in 1..(NumCategories + 1) :
        /\ req' = [NoReq EXCEPT !.op = "get_questions_for_category",
                                !.page = page, !.id = category_id]
        /\ resp' = get_questions_for_category(questions, page, category_id)
        /\ TriviaFrame
        /\ UNCHANGED <<questions, nextQuestionId, writes>>

PlayQuiz ==
    /\ Idle
    /\ \E previous_questions \in SUBSET (1..MaxPrevId),
       quiz_category \in QuizCategories :
        /\ req' = [NoReq EXCEPT !.op = "play_quiz",
                                !.previous_questions = previous_questions,
                                !.quiz_category = quiz_category]
        /\ resp' \in play_quiz(questions, previous_questions, quiz_category)
        /\ TriviaFrame
        /\ UNCHANGED <<questions, nextQuestionId, writes>>

\* after_request: the CORS headers are added and the response leaves the
\* service, which is then ready for the next request.
AfterRequest ==
    /\ ~Idle
    /\ req' = NoReq
    /\ resp' = NoResp
    /\ preQuestions' = questions
    /\ preDrinks' = drinks
    /\ UNCHANGED <<questions, nextQuestionId, drinks, nextDrinkId, writes,
                   session>>

NextTrivia ==
    \/ AfterRequest
    \/ GetQuestions
    \/ DeleteQuestion
    \/ PostQuestions
    \/ GetQuestionsForCategory
    \/ PlayQuiz

SpecTrivia == InitTrivia /\ [][NextTrivia]_vars

\* A quiz session over a store that no other request changes.  The client
\* picks a category (0 for all, NumCategories + 1 a category without
\* questions) and starts with previous_questions empty.
StartSession ==
    /\ Idle
    /\ ~session.active
    /\ \E c \in 0..(NumCategories + 1) :
        session' = [active |-> TRUE, category |-> c, previous |-> {},
                    calls |-> 0]
    /\ UNCHANGED <<questions, nextQuestionId, drinks, nextDrinkId,
                   preQuestions, preDrinks, req, resp, writes>>

\* One POST /quizzes of the session: play_quiz answers the body built from
\* the session, and the client adds the id of a returned question to its
\* previous_questions.
SessionQuiz ==
    /\ Idle
    /\ session.active
    /\ session.calls < MaxCalls
    /\ LET quiz_category ==
               PyDict(<<PyPair(<<"i", "d">>, PyInt(session.category))>>)
       IN  /\ req' = [NoReq EXCEPT !.op = "play_quiz",
                                   !.previous_questions = session.previous,
                                   !.quiz_category = quiz_category]
           /\ resp' \in play_quiz(questions, session.previous, quiz_category)
    /\ session' = [session EXCEPT
                      !.calls = @ + 1,
                      !.previous = IF resp'.question # <<>>
                                   THEN @ \cup {resp'.question[1].id} ELSE @]
    /\ preQuestions' = questions
    /\ preDrinks' = drinks
    /\ UNCHANGED <<questions, nextQuestionId, drinks, nextDrinkId, writes>>

NextQuizSession ==
    \/ AfterRequest
    \/ StartSession
    \/ SessionQuiz

SpecQuizSession == InitTrivia /\ [][NextQuizSession]_vars

(***************************************************************************)
(* Coffee-shop service                                                     *)
(***************************************************************************)
Permissions == {"get:drinks-detail", "post:drinks", "patch:drinks", "delete:drinks"}

\* requires_auth(permission) applied to the request's Authorization header:
\* 401 without a header or with a token that does not verify, 403 when the
\* verified token's permissions lack the required one, 200 to let it pass.
requires_auth(permission, auth) ==
    IF auth.kind # "valid" THEN 401
    ELSE IF permission \notin auth.permissions THEN 403
    ELSE 200

\* handle_auth_error: the AuthError's payload under its status code.
handle_auth_error(status_code) ==
    [NoResp EXCEPT !.status = status_code, !.gate = "refused",
                   !.keys = {"code", "description"}]

\* Drink.long(): the row with its recipe decoded.
DrinkLong(d) ==
    LET decoded == json_loads(d.recipe)
    IN  [ok |-> decoded.ok,
         v |-> [id |-> d.id, title |-> d.title, recipe |-> decoded.v]]

\* Drink.short(): the row with the colour and parts of each ingredient of the
\* decoded recipe; it raises when the decoded recipe is no list of
\* ingredients.
DrinkShort(d) ==
    LET decoded == json_loads(d.recipe)
        isIngredient(r) == /\ r.k = "dict"
                           /\ DictGet(r, Chars("color")) # <<>>
                           /\ DictGet(r, Chars("parts")) # <<>>
        ok == /\ decoded.ok
              /\ decoded.v.k = "list"
              /\ \A i \in 1..Len(decoded.v.items) : isIngredient(decoded.v.items[i])
        short(r) == PyDict(<<PyPair(Chars("color"), DictGet(r, Chars("color"))[1]),
                             PyPair(Chars("parts"), DictGet(r, Chars("parts"))[1])>>)
    IN  [ok |-> ok,
         v |-> [id |-> d.id, title |-> d.title,
                recipe |-> IF ok
                           THEN PyList([i \in 1..Len(decoded.v.items) |->
                                          short(decoded.v.items[i])])
                           ELSE PyNone]]

\* Drink.insert(), Drink.delete(), Drink.update()
DrinkInsert(rows, id, title, recipe) ==
    rows \cup {[id |-> id, title |-> title, recipe |-> recipe]}

DrinkDelete(rows, d) == rows \ {d}

DrinkUpdate(rows, d, title, recipe) ==
    (rows \ {d}) \cup {[id |-> d.id, title |-> title, recipe |-> recipe]}

\* [drink.long() for drink in drinks_all], [drink.short() for ...] over
\* Drink.query.order_by(Drink.id).all()
LongAll(rows) ==
    LET all == OrderById(rows) IN [i \in 1..Len(all) |-> DrinkLong(all[i])]

ShortAll(rows) ==
    LET all == OrderById(rows) IN [i \in 1..Len(all) |-> DrinkShort(all[i])]

\* jsonify({"success": True, "drinks": drinks}), 200 -- or the status the
\* handler's except clause aborts with when a representation raises.
DrinksResp(reprs, gate, onError) ==
    IF \E i \in 1..Len(reprs) : ~reprs[i].ok
    THEN [ErrorResp(onError) EXCEPT !.gate = gate]
    ELSE [OkResp(TRUE, {"success", "drinks"})
            EXCEPT !.gate = gate,
                   !.drinks = [i \in 1..Len(reprs) |-> reprs[i].v]]

\* GET /drinks.  abort(404) for the empty table is raised inside the try and
\* the except Exception clause turns it into abort(400).
display_drinks(rows) ==
    IF rows = {} THEN ErrorResp(400)
    ELSE DrinksResp(ShortAll(rows), "none", 400)

\* GET /drinks-detail, behind requires_auth('get:drinks-detail').
get_drinks_detail(rows, auth) ==
    LET gate == requires_auth("get:drinks-detail", auth) IN
    IF gate # 200 THEN handle_auth_error(gate)
    ELSE IF rows = {} THEN [ErrorResp(400) EXCEPT !.gate = "passed"]
    ELSE DrinksResp(LongAll(rows), "passed", 400)

\* POST /drinks, behind requires_auth('post:drinks').
create_new_drink_double_dumps(rows, nextId, auth, body) ==
    LET gate == requires_auth("post:drinks", auth) IN
    IF gate # 200
    THEN [resp |-> handle_auth_error(gate), rows |-> rows, nextId |-> nextId]
    ELSE LET title == IF body.has_title THEN body.title ELSE PyNone
             recipe == IF body.has_recipe THEN body.recipe ELSE PyNone
             after == DrinkInsert(rows, nextId, title,
                                  json_dumps(PyStr(json_dumps(recipe))))
         IN  [resp |-> DrinksResp(LongAll(after), "passed", 404),
              rows |-> after, nextId |-> nextId + 1]

create_new_drink(rows, nextId, auth, body) ==
    LET gate == requires_auth("post:drinks", auth) IN
    IF gate # 200
    THEN [resp |-> handle_auth_error(gate), rows |-> rows, nextId |-> nextId]
    ELSE LET title == IF body.has_title THEN body.title ELSE PyNone
             recipe == IF body.has_recipe THEN body.recipe ELSE PyNone
             after == DrinkInsert(rows, nextId, title, json_dumps(recipe))
         IN  [resp |-> DrinksResp(LongAll(after), "passed", 404),
              rows |-> after, nextId |-> nextId + 1]

\* PATCH /drinks/<id>, behind requires_auth('patch:drinks').  A field the
\* body lacks defaults to the row's attribute; the recipe attribute is the
\* stored JSON text, and json.dumps is applied to whichever value is used.
update_drink_ungated(rows, auth, id, body) ==
    LET found == {d \in rows : d.id = id}
    IN  IF found = {}
        THEN [resp |-> [ErrorResp(404) EXCEPT !.gate = "passed"], rows |-> rows]
        ELSE LET drink == CHOOSE d \in found : TRUE
                 new_title == IF body.has_title THEN body.title ELSE drink.title
                 new_recipe == IF body.has_recipe THEN body.recipe
                               ELSE PyStr(drink.recipe)
                 after == DrinkUpdate(rows, drink, new_title, json_dumps(new_recipe))
             IN  [resp |-> DrinksResp(LongAll(after), "passed", 404),
                  rows |-> after]

update_drink(rows, auth, id, body) ==
    LET gate == requires_auth("patch:drinks", auth)
        found == {d \in rows : d.id = id}
    IN  IF gate # 200 THEN [resp |-> handle_auth_error(gate), rows |-> rows]
        ELSE IF found = {}
             THEN [resp |-> [ErrorResp(404) EXCEPT !.gate = "passed"], rows |-> rows]
        ELSE LET drink == CHOOSE d \in found : TRUE
                 new_title == IF body.has_title THEN body.title ELSE drink.title
                 new_recipe == IF body.has_recipe THEN body.recipe
                               ELSE PyStr(drink.recipe)
                 after == DrinkUpdate(rows, drink, new_title, json_dumps(new_recipe))
             IN  [resp |-> DrinksResp(LongAll(after), "passed", 404),
                  rows |-> after]

\* DELETE /drinks/<id>, behind requires_auth('delete:drinks').
delete_drink(rows, auth, id) ==
    LET gate == requires_auth("delete:drinks", auth)
        found == {d \in rows : d.id = id}
    IN  IF gate # 200 THEN [resp |-> handle_auth_error(gate), rows |-> rows]
        ELSE IF found = {}
             THEN [resp |-> [ErrorResp(404) EXCEPT !.gate = "passed"], rows |-> rows]
        ELSE LET after == DrinkDelete(rows, CHOOSE d \in found : TRUE)
             IN  [resp |-> DrinksResp(LongAll(after), "passed", 404),
                  rows |-> after]

(***************************************************************************)
(* Coffee-shop service: the requests                                       *)
(***************************************************************************)
\* Authorization headers: none, a token that does not verify, and verified
\* tokens with no permission, one, all but one, or all of them.
PermissionSets ==
    {{}, Permissions} \cup {{p} : p \in Permissions}
    \cup {Permissions \ {p} : p \in Permissions}

Tokens ==
    {[kind |-> "none", permissions |-> {}],
     [kind |-> "invalid", permissions |-> Permissions]}
    \cup {[kind |-> "valid", permissions |-> P] : P \in PermissionSets}

Ingredient(name, color, parts) ==
    PyDict(<<PyPair(Chars("name"), PyStr(name)),
             PyPair(Chars("color"), PyStr(color)),
             PyPair(Chars("parts"), PyInt(parts))>>)

RecipeA == PyList(<<Ingredient(<<"n">>, <<"c">>, 1)>>)

RecipeB == PyList(<<Ingredient(<<"a", "\"">>, <<"\\", " ">>, 12),
                    Ingredient(<<>>, <<"c">>, 0)>>)

\* A request body of the drinks endpoints: which of title and recipe it
\* carries, and their values.
DrinkBody(has_title, title, has_recipe, recipe) ==
    [has_title |-> has_title, title |-> title,
     has_recipe |-> has_recipe, recipe |-> recipe]

PostDrinkBodies ==
    {DrinkBody(TRUE, PyStr(<<"T">>), TRUE, RecipeA),
     DrinkBody(TRUE, PyStr(<<"U">>), TRUE, RecipeB),
     DrinkBody(TRUE, PyStr(<<"T">>), TRUE, PyList(<<>>)),
     DrinkBody(FALSE, PyNone, FALSE, PyNone)}

PatchDrinkBodies ==
    {DrinkBody(TRUE, PyStr(<<"V">>), FALSE, PyNone),
     DrinkBody(FALSE, PyNone, TRUE, RecipeB),
     DrinkBody(TRUE, PyStr(<<"V">>), TRUE, RecipeA),
     DrinkBody(FALSE, PyNone, FALSE, PyNone)}

\* db_drop_and_create_all(): the service starts on an empty drinks table.
InitCoffee ==
    /\ questions = {}
    /\ nextQuestionId = 1
    /\ drinks = {}
    /\ nextDrinkId = 1
    /\ preQuestions = questions
    /\ preDrinks = drinks
    /\ req = NoReq
    /\ resp = NoResp
    /\ writes = 0
    /\ session = NoSession

\* What every coffee-shop request does besides answering.
CoffeeFrame ==
    /\ preQuestions' = questions
    /\ preDrinks' = drinks
    /\ UNCHANGED <<questions, nextQuestionId, session>>

DrinkReq(op, auth, id, body) ==
    [NoReq EXCEPT !.op = op, !.auth = auth, !.id = id,
                  !.has_title = body.has_title, !.title = body.title,
                  !.has_recipe = body.has_recipe, !.recipe = body.recipe]

NoBody == DrinkBody(FALSE, PyNone, FALSE, PyNone)

DisplayDrinks ==
    /\ Idle
    /\ \E auth \in Tokens :
        /\ req' = DrinkReq("display_drinks", auth, 0, NoBody)
        /\ resp' = display_drinks(drinks)
        /\ CoffeeFrame
        /\ UNCHANGED <<drinks, nextDrinkId, writes>>

GetDrinksDetail ==
    /\ Idle
    /\ \E auth \in Tokens :
        /\ req' = DrinkReq("get_drinks_detail", auth, 0, NoBody)
        /\ resp' = get_drinks_detail(drinks, auth)
        /\ CoffeeFrame
        /\ UNCHANGED <<drinks, nextDrinkId, writes>>

CreateNewDrink ==
    /\ Idle
    /\ \E auth \in Tokens, body \in PostDrinkBodies :
        LET r == create_new_drink(drinks, nextDrinkId, auth, body) IN
        /\ r.rows = drinks \/ writes < MaxDrinkWrites
        /\ req' = DrinkReq("create_new_drink", auth, 0, body)
        /\ resp' = r.resp
        /\ drinks' = r.rows
        /\ nextDrinkId' = r.nextId
        /\ writes' = IF r.rows = drinks THEN writes ELSE writes + 1
        /\ CoffeeFrame

UpdateDrink ==
    /\ Idle
    /\ \E auth \in Tokens, id \in 1..nextDrinkId, body \in PatchDrinkBodies :
        LET r == update_drink(drinks, auth, id, body) IN
        /\ r.rows = drinks \/ writes < MaxDrinkWrites
        /\ req' = DrinkReq("update_drink", auth, id, body)
        /\ resp' = r.resp
        /\ drinks' = r.rows
        /\ writes' = IF r.rows = drinks THEN writes ELSE writes + 1
        /\ CoffeeFrame
        /\ UNCHANGED nextDrinkId

DeleteDrink ==
    /\ Idle
    /\ \E auth \in Tokens, id \in 1..nextDrinkId :
        LET r == delete_drink(drinks, auth, id) IN
        /\ r.rows = drinks \/ writes < MaxDrinkWrites
        /\ req' = DrinkReq("delete_drink", auth, id, NoBody)
        /\ resp' = r.resp
        /\ drinks' = r.rows
        /\ writes' = IF r.rows = drinks THEN writes ELSE writes + 1
        /\ CoffeeFrame
        /\ UNCHANGED nextDrinkId

NextCoffee ==
    \/ AfterRequest
    \/ DisplayDrinks
    \/ GetDrinksDetail
    \/ CreateNewDrink
    \/ UpdateDrink
    \/ DeleteDrink

SpecCoffee == InitCoffee /\ [][NextCoffee]_vars

(***************************************************************************)
(* Properties of the trivia service                                        *)
(***************************************************************************)
Ids(rows) == {q.id : q \in rows}

\* The number of rows before the row of this id in id order.
Rank(rows, id) == Cardinality({o \in rows : o.id < id})

\* items is page N of rows: at most 10 items, the i-th item the formatted row
\* of rank (N-1)*10 + i - 1, and no row of rank in [(N-1)*10, N*10) left out.
IsPageOf(items, rows, N) ==
    /\ Len(items) <= 10
    /\ \A i \in 1..Len(items) :
          \E q \in rows : /\ items[i] = Format(q)
                          /\ Rank(rows, q.id) = (N - 1) * 10 + i - 1
    /\ Len(items) = Cardinality({q \in rows :
                        Rank(rows, q.id) \in ((N - 1) * 10)..(N * 10 - 1)})

\* The questions GET /questions returns for the pages from..to, in order.
RECURSIVE ConcatPages(_, _, _)
ConcatPages(rows, from, to) ==
    IF from > to THEN <<>>
    ELSE get_questions(rows, from).questions \o ConcatPages(rows, from + 1, to)

\* The page after the last page that holds a question.
PastLastPage(rows) == ((Cardinality(rows) + 9) \div 10) + 1

\* C1: for every page number N >= 1, GET /questions?page=N returns at most 10
\* questions, the slice [(N-1)*10, N*10) of the id-ordered question list, and
\* the pages 1, 2, 3, ... concatenated are the whole id-ordered question
\* list, each question once.
C1_Pagination ==
    /\ (req.op = "get_questions" /\ req.page >= 1)
          => IsPageOf(resp.questions, preQuestions, req.page)
    /\ \A N \in 1..(MaxPage + 1) :
          IsPageOf(get_questions(questions, N).questions, questions, N)
    /\ LET all == ConcatPages(questions, 1, PastLastPage(questions))
       IN  /\ Len(all) = Cardinality(questions)
           /\ \A i \in 1..Len(all) :
                 \E q \in questions : /\ all[i] = Format(q)
                                      /\ Rank(questions, q.id) = i - 1

\* A second page with questions on it was served.
C1_Witness ==
    /\ req.op = "get_questions"
    /\ req.page = 2
    /\ resp.status = 200
    /\ Len(resp.questions) >= 1
    /\ Cardinality(preQuestions) > 10

\* The effect of the last request when it is DELETE /questions/{id}.
DeleteEffect ==
    req.op = "delete_specific_question" =>
        IF req.id \in Ids(preQuestions)
        THEN /\ resp.status = 200
             /\ resp.success
             /\ resp.deleted = req.id
             /\ resp.total_questions = Cardinality(preQuestions) - 1
             /\ questions = {q \in preQuestions : q.id # req.id}
             /\ \A N \in 1..(MaxPage + 1) :
                   LET got == get_questions(questions, N) IN
                   /\ \A i \in 1..Len(got.questions) : got.questions[i].id # req.id
                   /\ got.status = 200
                         => got.total_questions = Cardinality(preQuestions) - 1
        ELSE /\ resp.status = 422
             /\ ~resp.success
             /\ questions = preQuestions

\* An id that was given out and is no longer in the table never comes back.
DeletedStaysDeleted ==
    \A id \in 1..(nextQuestionId - 1) :
        id \notin Ids(questions) => id \notin Ids(questions')

\* C2: DELETE /questions/{id} on an id in the store responds 200 and removes
\* that question for good: no later GET /questions page contains the id and
\* total_questions is one less; on an id not in the store it responds 422 and
\* the store is unchanged.
C2_DeleteQuestion == [][DeletedStaysDeleted]_vars /\ []DeleteEffect

\* A question of a two-page store was deleted.
C2_Witness ==
    /\ req.op = "delete_specific_question"
    /\ req.id \in Ids(preQuestions)
    /\ resp.status = 200
    /\ Cardinality(preQuestions) > 10

\* The id of the quiz_category of the last request (empty when it has none).
QuizCategoryId ==
    IF req.quiz_category.k = "dict"
    THEN DictGet(req.quiz_category, <<"i", "d">>) ELSE <<>>

\* The questions of the selected category, 0 selecting every question.
InCategory(rows) ==
    IF QuizCategoryId = <<>> THEN {}
    ELSE IF QuizCategoryId[1] = PyInt(0) THEN rows
    ELSE {q \in rows : q.category = QuizCategoryId[1]}

\* C3: a question returned by POST /quizzes is a question of the store whose
\* id is not in previous_questions and which belongs to the selected category
\* (any category when the selector is 0).
C3_QuizQuestion ==
    (req.op = "play_quiz" /\ resp.question # <<>>) =>
        /\ resp.question[1].id \notin req.previous_questions
        /\ \E q \in preQuestions : resp.question[1] = Format(q)
        /\ QuizCategoryId # <<>>
              => \E q \in InCategory(preQuestions) : resp.question[1] = Format(q)

\* A question was served from a category of which previous_questions
\* excludes another question.
C3_Witness ==
    /\ req.op = "play_quiz"
    /\ resp.question # <<>>
    /\ QuizCategoryId # <<>>
    /\ QuizCategoryId[1] # PyInt(0)
    /\ \E q \in InCategory(preQuestions) : q.id \in req.previous_questions
    /\ \E q \in preQuestions : q \notin InCategory(preQuestions)

\* The quiz candidates: in the selected category and not served before.
Candidates(rows) == {q \in InCategory(rows) : q.id \notin req.previous_questions}

\* C4 as stated: whenever the candidate set is empty -- every question of the
\* category is in previous_questions, or the category holds no question --
\* POST /quizzes answers {success: true, question: null} and no error status.
C4_AsStated ==
    (req.op = "play_quiz" /\ QuizCategoryId # <<>> /\ Candidates(preQuestions) = {})
        => /\ resp.status = 200
           /\ resp.success
           /\ "question" \in resp.keys
           /\ resp.question = <<>>

\* C4 as the handler has it: with every question of a non-empty category in
\* previous_questions the answer is status 200 with question null and success
\* false; for a category without questions it is the 404 error.
C4_NoCandidate ==
    (req.op = "play_quiz" /\ QuizCategoryId # <<>> /\ Candidates(preQuestions) = {})
        => IF InCategory(preQuestions) # {}
           THEN /\ resp.status = 200
                /\ ~resp.success
                /\ resp.keys = {"success", "question"}
                /\ resp.question = <<>>
           ELSE /\ resp.status = 404
                /\ ~resp.success
                /\ "question" \notin resp.keys

\* Every question of a category with questions was excluded.
C4_Witness ==
    /\ req.op = "play_quiz"
    /\ QuizCategoryId # <<>>
    /\ InCategory(preQuestions) # {}
    /\ Candidates(preQuestions) = {}
    /\ resp.status = 200

\* text contains term as a substring, letters compared without regard to case.
ContainsIgnoreCase(text, term) ==
    \E i \in 0..(Len(text) - Len(term)) :
        \A j \in 1..Len(term) : Lower(text[i + j]) = Lower(term[j])

\* The questions whose text contains the search term of the last request.
SubstringMatches(rows) ==
    {q \in rows : /\ q.question.k = "str"
                  /\ ContainsIgnoreCase(q.question.s, req.searchTerm.s)}

\* C6 as stated: for every search term sent in POST /questions {searchTerm}
\* the result is exactly the questions whose text contains the term as a
\* case-insensitive substring, in id order, 10 per page, total_questions the
\* number of them, and the question store is not modified.
C6_AsStated ==
    (req.op = "create_new_question" /\ req.searchTerm.k = "str") =>
        /\ resp.status = 200
        /\ IsPageOf(resp.questions, SubstringMatches(preQuestions), req.page)
        /\ resp.total_questions = Cardinality(SubstringMatches(preQuestions))
        /\ questions = preQuestions

\* C7 as stated: GET /questions responds 404 when the requested page is
\* empty; a search that no question matches and GET /categories/{id}/questions
\* for a category without questions respond 200 with success true, an empty
\* questions list and total_questions 0 (current_category the requested id).
C7_AsStated ==
    /\ (req.op = "get_questions" /\ req.page >= 1
            /\ Cardinality(preQuestions) <= (req.page - 1) * 10)
          => (resp.status = 404 /\ ~resp.success)
    /\ (req.op = "create_new_question" /\ Truthy(req.searchTerm)
            /\ SubstringMatches(preQuestions) = {})
          => /\ resp.status = 200
             /\ resp.success
             /\ resp.questions = <<>>
             /\ resp.total_questions = 0
    /\ (req.op = "get_questions_for_category"
            /\ \A q \in preQuestions : q.category # PyInt(req.id))
          => /\ resp.status = 200
             /\ resp.success
             /\ resp.questions = <<>>
             /\ resp.total_questions = 0
             /\ resp.current_category = req.id

\* C8: a successful POST /questions that creates a question adds exactly one
\* question: created is its new id, total_questions is one more than before,
\* the questions stored before are unchanged, and the pages of a following
\* GET /questions include the new question.
C8_CreateQuestion ==
    (req.op = "create_new_question" /\ req.searchTerm = PyNone
        /\ resp.status = 200) =>
        LET new == [id |-> resp.created, question |-> req.question,
                    answer |-> req.answer, category |-> req.category,
                    difficulty |-> req.difficulty]
            all == ConcatPages(questions, 1, PastLastPage(questions))
        IN  /\ resp.success
            /\ "created" \in resp.keys
            /\ resp.created \notin Ids(preQuestions)
            /\ questions = preQuestions \cup {new}
            /\ resp.total_questions = Cardinality(preQuestions) + 1
            /\ get_questions(questions, 1).total_questions
                  = Cardinality(preQuestions) + 1
            /\ \E i \in 1..Len(all) : all[i] = Format(new)

\* A question with all four fields was added to a store that filled a page.
C8_Witness ==
    /\ req.op = "create_new_question"
    /\ req.searchTerm = PyNone
    /\ req.question.k = "str" /\ req.answer.k = "str"
    /\ req.category.k = "int" /\ req.difficulty.k = "int"
    /\ resp.status = 200
    /\ Cardinality(preQuestions) = 10

(***************************************************************************)
(* Properties of the coffee-shop service                                   *)
(***************************************************************************)
GatedOps == {"get_drinks_detail", "create_new_drink", "update_drink", "delete_drink"}

\* The permission each gated endpoint requires.
RequiredPermission(op) ==
    CASE op = "get_drinks_detail" -> "get:drinks-detail"
      [] op = "create_new_drink" -> "post:drinks"
      [] op = "update_drink" -> "patch:drinks"
      [] op = "delete_drink" -> "delete:drinks"

\* The token of the last request verifies and holds the permission of the
\* endpoint called.
Permitted ==
    /\ req.auth.kind = "valid"
    /\ RequiredPermission(req.op) \in req.auth.permissions

\* C5: the body of a gated handler runs only for a request whose verified
\* token holds the endpoint's permission; a request whose token lacks it is
\* answered 403 and the drink store is as it was before the request.
C5_PermissionGate ==
    req.op \in GatedOps =>
        /\ resp.gate = "passed" => Permitted
        /\ ~Permitted => (drinks = preDrinks /\ resp.gate = "refused")
        /\ (req.auth.kind = "valid" /\ ~Permitted) => resp.status = 403

\* PATCH of an existing drink with a new title and a token that holds every
\* permission but patch:drinks was refused.
C5_Witness ==
    /\ req.op = "update_drink"
    /\ req.auth.kind = "valid"
    /\ req.auth.permissions = Permissions \ {"patch:drinks"}
    /\ req.has_title
    /\ \E d \in preDrinks : d.id = req.id /\ d.title # req.title
    /\ resp.status = 403

\* C9: after an authorised POST /drinks with a title and a recipe, GET
\* /drinks-detail returns the new drink with that title and with a decoded
\* recipe equal to the recipe submitted.
C9_RecipeRoundTrip ==
    (req.op = "create_new_drink" /\ Permitted) =>
        LET got == get_drinks_detail(drinks,
                       [kind |-> "valid", permissions |-> {"get:drinks-detail"}])
        IN  /\ got.status = 200
            /\ \E i \in 1..Len(got.drinks) :
                  /\ got.drinks[i].id \notin Ids(preDrinks)
                  /\ got.drinks[i].title = req.title
                  /\ got.drinks[i].recipe = req.recipe

\* A recipe of two ingredients whose names hold a quote and a backslash was
\* posted to a store that held a drink.
C9_Witness ==
    /\ req.op = "create_new_drink"
    /\ Permitted
    /\ req.has_title /\ req.has_recipe
    /\ req.recipe = RecipeB
    /\ preDrinks # {}
    /\ resp.status = 200

\* C10 as stated: GET /drinks, and GET /drinks-detail with a token that holds
\* get:drinks-detail, respond 404 when the drink store is empty; 400 is never
\* the answer for the empty store.
C10_AsStated ==
    ((req.op = "display_drinks" \/ (req.op = "get_drinks_detail" /\ Permitted))
        /\ preDrinks = {})
        => resp.status = 404

\* The drink of this id as GET /drinks-detail returns it from rows (with a
\* token that holds get:drinks-detail): a sequence of one drink, or empty.
DetailOf(rows, id) ==
    LET got == get_drinks_detail(rows,
                   [kind |-> "valid", permissions |-> {"get:drinks-detail"}])
    IN  SelectSeq(got.drinks, LAMBDA d : d.id = id)

\* C11 as stated: an authorised DELETE /drinks/{id} on an existing drink
\* removes that drink and no other and responds 200 with {success: true,
\* delete: id}; on an id not in the store it responds 404 and the store is
\* unchanged.
C11_AsStated ==
    (req.op = "delete_drink" /\ Permitted) =>
        IF req.id \in Ids(preDrinks)
        THEN /\ drinks = {d \in preDrinks : d.id # req.id}
             /\ resp.status = 200
             /\ resp.success
             /\ "delete" \in resp.keys
             /\ resp.delete = req.id
        ELSE /\ resp.status = 404
             /\ drinks = preDrinks

\* C12 as stated: PATCH /drinks/{id} keeps the value of a field the body
\* omits: after an authorised PATCH without a recipe the decoded recipe of
\* the drink, as GET /drinks-detail returns it, is the one it had before, and
\* after a PATCH without a title the title is the one it had before.
C12_AsStated ==
    (req.op = "update_drink" /\ Permitted /\ req.id \in Ids(preDrinks)) =>
        LET before == DetailOf(preDrinks, req.id)
            after == DetailOf(drinks, req.id)
        IN  /\ Len(before) = 1
            /\ Len(after) = 1
            /\ ~req.has_recipe => after[1].recipe = before[1].recipe
            /\ ~req.has_title => after[1].title = before[1].title

\* The response to a call of a quiz session that serves a question: one of
\* the selected category that the client was not served before, so that the
\* questions served so far are as many as the calls made.
SessionServed ==
    /\ resp.status = 200
    /\ resp.question # <<>>
    /\ \E q \in InCategory(preQuestions) : resp.question[1] = Format(q)
    /\ resp.question[1].id \notin req.previous_questions
    /\ session.previous = req.previous_questions \cup {resp.question[1].id}
    /\ Cardinality(session.previous) = session.calls

\* The response to a call of a quiz session that serves no question.
SessionNoQuestion ==
    /\ resp.status = 200
    /\ "question" \in resp.keys
    /\ resp.question = <<>>
    /\ session.previous = req.previous_questions

\* The server keeps no state between the calls of a session: a call leaves
\* the store as it was and its response is one play_quiz gives for the store
\* and the submitted body.
SessionStateless ==
    /\ questions = preQuestions
    /\ resp \in play_quiz(preQuestions, req.previous_questions,
                          req.quiz_category)

\* C13 as stated: in a quiz session over a fixed store with n questions in
\* the selected category, each of the first n calls returns a question of the
\* category not returned before, and every later call returns the
\* no-question response (question: null); for every n, n = 0 included.
C13_AsStated ==
    (req.op = "play_quiz" /\ session.active) =>
        /\ SessionStateless
        /\ IF session.calls <= Cardinality(InCategory(preQuestions))
           THEN SessionServed
           ELSE SessionNoQuestion

\* C13 as the handler has it: with n >= 1 questions in the selected category
\* each of the first n calls of a session returns a question of the category
\* not returned before and every later call returns status 200 with question
\* null and success false; with n = 0 every call is answered by the 404
\* error.  No call changes the store.
C13_QuizSession ==
    (req.op = "play_quiz" /\ session.active) =>
        /\ SessionStateless
        /\ IF InCategory(preQuestions) = {}
           THEN /\ resp.status = 404
                /\ "question" \notin resp.keys
                /\ session.previous = {}
           ELSE IF session.calls <= Cardinality(InCategory(preQuestions))
           THEN SessionServed
           ELSE SessionNoQuestion /\ ~resp.success

\* A session in a category of several questions, other categories being
\* present, has been served all of them and has made a further call.
C13_Witness ==
    /\ req.op = "play_quiz"
    /\ session.active
    /\ QuizCategoryId[1] # PyInt(0)
    /\ Cardinality(InCategory(preQuestions)) >= 3
    /\ InCategory(preQuestions) # preQuestions
    /\ session.calls > Cardinality(InCategory(preQuestions))
    /\ session.previous = Ids(InCategory(preQuestions))
    /\ resp.question = <<>>

====
